---- MODULE Spec2Model ----
(***************************************************************************)
(* stream_ml core: the frozen mapping (FrozenDict), its dataclass          *)
(* descriptor (FrozenDictField), the truncated-normal evaluator and the    *)
(* composite model, as state machines.                                     *)
(*                                                                         *)
(* A Python dict is a sequence of <<key, value>> pairs with distinct keys, *)
(* in insertion order.  An optional value (None / MISSING / unset          *)
(* attribute) is the empty sequence, a present one a one-element sequence. *)
(***************************************************************************)
EXTENDS Integers, Sequences, FiniteSets, TLC

VARIABLES
    args,        \* FrozenDict: the (m, kwargs) each instance was constructed from
    fd,          \* FrozenDict: the instances "A" and "B" (_dict, _hash)
    ret,         \* FrozenDict: what the last call returned or raised
    nComputed,   \* FrozenDict: how often each instance ran the loop of __hash__
    field,       \* FrozenDictField: the descriptor (_default) and the default it was given
    attr,        \* FrozenDictField: the owning object's "_<name>" attribute
    assigned,    \* FrozenDictField: the first value stored and the last mapping assigned
    fret,        \* FrozenDictField: what the last read returned or raised
    tn,          \* TruncatedNormal: the model's configuration
    call,        \* TruncatedNormal: the arguments of the call (mpars, data, where)
    tnret,       \* TruncatedNormal: what ln_likelihood returned or raised
    cm,          \* CompositeModel: _models, name -> sub-model, in insertion order
    cin,         \* CompositeModel: the arguments (pars, data) of the calls
    trace,       \* CompositeModel: the sub-model calls of the last evaluation
    cret         \* CompositeModel: what the last call returned or raised

fdVars == <<args, fd, ret, nComputed>>
fieldVars == <<field, attr, assigned, fret>>
tnVars == <<tn, call, tnret>>
cmVars == <<cm, cin, trace, cret>>
vars == <<args, fd, ret, nComputed, field, attr, assigned, fret,
          tn, call, tnret, cm, cin, trace, cret>>

(***************************************************************************)
(* Bounds of the model.                                                    *)
(***************************************************************************)
\* longest list of pairs handed to a constructor
MaxLen == 2
\* width of a hash value, in bits
HashBits == 3
\* the count of hash computations saturates here
ComputeCap == 2
\* most sub-models in the positional mapping of a composite
MaxModels == 2
\* most rows of a data table
MaxRows == 2

KeySet == {"a", "b"}
ValSet == {1, 2}
PairSet == KeySet \X ValSet

RECURSIVE Pow2(_)
Pow2(n) == IF n = 0 THEN 1 ELSE 2 * Pow2(n - 1)

SeqsUpTo(S, n) == UNION {[1..k -> S] : k \in 0..n}

None == <<>>
Some(x) == <<x>>

(***************************************************************************)
(* The builtin dict.                                                       *)
(***************************************************************************)
DictKeys(d) == {d[i][1] : i \in 1..Len(d)}
HasKey(d, k) == k \in DictKeys(d)
Lookup(d, k) == d[CHOOSE i \in 1..Len(d) : d[i][1] = k][2]
DistinctKeys(d) == \A i, j \in 1..Len(d) : d[i][1] = d[j][1] => i = j

\* d[k] = v: an existing key keeps its position, a new one is appended
DictSetItem(d, k, v) ==
    IF HasKey(d, k)
    THEN [i \in 1..Len(d) |-> IF d[i][1] = k THEN <<k, v>> ELSE d[i]]
    ELSE Append(d, <<k, v>>)

\* d.update(pairs), pair by pair
RECURSIVE DictUpdate(_, _)
DictUpdate(d, pairs) ==
    IF pairs = <<>> THEN d
    ELSE DictUpdate(DictSetItem(d, Head(pairs)[1], Head(pairs)[2]), Tail(pairs))

\* dict(m)
DictFromPairs(m) == DictUpdate(<<>>, m)

\* d1 == d2 of two dicts: same keys, same values, whatever the order
DictEq(d1, d2) ==
    /\ Len(d1) = Len(d2)
    /\ \A i \in 1..Len(d1) : HasKey(d2, d1[i][1]) /\ Lookup(d2, d1[i][1]) = d1[i][2]

(***************************************************************************)
(* The builtin hash, HashBits wide.                                        *)
(***************************************************************************)
RECURSIVE BitXor(_, _)
BitXor(x, y) ==
    IF x = 0 THEN y
    ELSE IF y = 0 THEN x
    ELSE (((x % 2) + (y % 2)) % 2) + 2 * BitXor(x \div 2, y \div 2)

\* hash of a str key
StrHash(k) == CASE k = "a" -> 1 [] k = "b" -> 2 [] OTHER -> 3

\* hash((key, value)): the lanes mixed; hash of a small int is the int
TupleHash(k, v) == (3 * StrHash(k) + 5 * v + 1) % Pow2(HashBits)

(***************************************************************************)
(* FrozenDict                                                              *)
(***************************************************************************)
\* FrozenDict(m, **kwargs)
FrozenDict_init(m, kwargs) ==
    [type |-> "FrozenDict",
     _dict |-> DictUpdate(DictFromPairs(m), kwargs),
     _hash |-> None]

\* a plain dict carrying the same entries (not a FrozenDict)
PlainDict(m) == [type |-> "dict", _dict |-> DictFromPairs(m)]

FrozenDict_iter(self) == [i \in 1..Len(self._dict) |-> self._dict[i][1]]
FrozenDict_len(self) == Len(self._dict)
FrozenDict_contains(self, key) == HasKey(self._dict, key)
FrozenDict_getitem(self, key) ==
    IF HasKey(self._dict, key)
    THEN [raised |-> None, val |-> Lookup(self._dict, key)]
    ELSE [raised |-> Some("KeyError"), val |-> 0]

\* self.items(): the (key, value) pairs in iteration order, each value read
\* through __getitem__
FrozenDict_items(self) ==
    [i \in 1..Len(self._dict) |->
        <<self._dict[i][1], FrozenDict_getitem(self, self._dict[i][1]).val>>]

\* a loop of __hash__ that depends on the order of the entries
RECURSIVE HashLoopOrdered(_, _)
HashLoopOrdered(h, items) ==
    IF items = <<>> THEN h
    ELSE HashLoopOrdered(
             BitXor((2 * h) % Pow2(HashBits), TupleHash(Head(items)[1], Head(items)[2])),
             Tail(items))

\* h ^= hash((key, value)) for each item, from h
RECURSIVE HashLoop(_, _)
HashLoop(h, items) ==
    IF items = <<>> THEN h
    ELSE HashLoop(BitXor(h, TupleHash(Head(items)[1], Head(items)[2])), Tail(items))

\* a cache test that takes a cached 0 for "not computed"
HashIsFalsy(h) == h = None \/ h = Some(0)

\* self._hash is None
HashIsNone(h) == h = None

\* __hash__: the instance afterwards, the value returned, whether the loop ran
FrozenDict_hash(self) ==
    IF HashIsNone(self._hash)
    THEN LET h == HashLoop(0, FrozenDict_items(self))
         IN  [self |-> [self EXCEPT !._hash = Some(h)], val |-> h, ran |-> TRUE]
    ELSE [self |-> self, val |-> self._hash[1], ran |-> FALSE]

\* a union in which the left operand wins on a shared key
FrozenDict_or_leftwins(self, other) ==
    IF other.type # "FrozenDict"
    THEN [raised |-> Some("NotImplementedError"), val |-> None]
    ELSE [raised |-> None,
          val |-> Some(FrozenDict_init(
                     DictUpdate(DictFromPairs(FrozenDict_items(other)), self._dict),
                     <<>>))]

\* self | other
FrozenDict_or(self, other) ==
    IF other.type # "FrozenDict"
    THEN [raised |-> Some("NotImplementedError"), val |-> None]
    ELSE [raised |-> None,
          val |-> Some(FrozenDict_init(
                     DictUpdate(self._dict, DictFromPairs(FrozenDict_items(other))),
                     <<>>))]

\* self.copy(add_or_replace): type(self)({**self, **add_or_replace})
FrozenDict_copy(self, add_or_replace) ==
    FrozenDict_init(DictUpdate(DictFromPairs(FrozenDict_items(self)), add_or_replace), <<>>)

\* Mapping.__eq__: dict(self.items()) == dict(other.items())
FrozenDict_eq(self, other) ==
    DictEq(DictFromPairs(FrozenDict_items(self)), DictFromPairs(FrozenDict_items(other)))

Names == {"A", "B"}

\* "A" is built from any list of pairs (repeated keys included) and keywords,
\* "B", the other operand, from the items of a mapping
InitFrozenDict ==
    /\ args \in [Names -> [m : SeqsUpTo(PairSet, MaxLen), kwargs : SeqsUpTo(PairSet, 1)]]
    /\ Len(args["A"].m) + Len(args["A"].kwargs) <= MaxLen
    /\ args["B"].kwargs = <<>>
    /\ DistinctKeys(args["B"].m)
    /\ fd = [n \in Names |-> FrozenDict_init(args[n].m, args[n].kwargs)]
    /\ ret = [op |-> "init"]
    /\ nComputed = [n \in Names |-> 0]

IdleFrozenDict ==
    /\ args = [n \in Names |-> [m |-> <<>>, kwargs |-> <<>>]]
    /\ fd = [n \in Names |-> FrozenDict_init(<<>>, <<>>)]
    /\ ret = [op |-> "init"]
    /\ nComputed = [n \in Names |-> 0]

Hash(n) ==
    LET r == FrozenDict_hash(fd[n]) IN
    /\ fd' = [fd EXCEPT ![n] = r.self]
    /\ ret' = [op |-> "hash", on |-> n, val |-> r.val]
    /\ nComputed' = [nComputed EXCEPT ![n] =
                        IF r.ran /\ @ < ComputeCap THEN @ + 1 ELSE @]
    /\ UNCHANGED args

GetItem(k) ==
    /\ ret' = [op |-> "getitem", key |-> k, res |-> FrozenDict_getitem(fd["A"], k)]
    /\ UNCHANGED <<args, fd, nComputed>>

Contains(k) ==
    /\ ret' = [op |-> "contains", key |-> k, val |-> FrozenDict_contains(fd["A"], k)]
    /\ UNCHANGED <<args, fd, nComputed>>

LenCall ==
    /\ ret' = [op |-> "len", val |-> FrozenDict_len(fd["A"])]
    /\ UNCHANGED <<args, fd, nComputed>>

Iterate ==
    /\ ret' = [op |-> "iter", val |-> FrozenDict_iter(fd["A"])]
    /\ UNCHANGED <<args, fd, nComputed>>

Union(plain) ==
    LET other == IF plain THEN PlainDict(args["B"].m) ELSE fd["B"] IN
    /\ ret' = [op |-> "or", plain |-> plain, res |-> FrozenDict_or(fd["A"], other)]
    /\ UNCHANGED <<args, fd, nComputed>>

Copy(add_or_replace) ==
    /\ ret' = [op |-> "copy", arg |-> add_or_replace,
               val |-> FrozenDict_copy(fd["A"], add_or_replace)]
    /\ UNCHANGED <<args, fd, nComputed>>

Equal ==
    /\ ret' = [op |-> "eq", val |-> FrozenDict_eq(fd["A"], fd["B"])]
    /\ UNCHANGED <<args, fd, nComputed>>

IdleField ==
    /\ field = [default |-> None, _default |-> None]
    /\ attr = None
    /\ assigned = [first |-> None, last |-> None]
    /\ fret = [op |-> "init"]

IdleTruncNorm ==
    /\ tn = <<>>
    /\ call = <<>>
    /\ tnret = [op |-> "init"]

IdleComposite ==
    /\ cm = [_models |-> <<>>, _modules |-> <<>>]
    /\ cin = [pars |-> 1, data |-> <<>>]
    /\ trace = <<>>
    /\ cret = [op |-> "init"]

Init == InitFrozenDict /\ IdleField /\ IdleTruncNorm /\ IdleComposite

Next ==
    \/ \E n \in Names : Hash(n) /\ UNCHANGED <<fieldVars, tnVars, cmVars>>
    \/ \E k \in KeySet : GetItem(k) /\ UNCHANGED <<fieldVars, tnVars, cmVars>>
    \/ \E k \in KeySet : Contains(k) /\ UNCHANGED <<fieldVars, tnVars, cmVars>>
    \/ LenCall /\ UNCHANGED <<fieldVars, tnVars, cmVars>>
    \/ Iterate /\ UNCHANGED <<fieldVars, tnVars, cmVars>>
    \/ \E plain \in BOOLEAN : Union(plain) /\ UNCHANGED <<fieldVars, tnVars, cmVars>>
    \/ \E p \in SeqsUpTo(PairSet, 1) : Copy(p) /\ UNCHANGED <<fieldVars, tnVars, cmVars>>
    \/ Equal /\ UNCHANGED <<fieldVars, tnVars, cmVars>>

Spec == Init /\ [][Next]_vars

(***************************************************************************)
(* Properties of FrozenDict                                                *)
(***************************************************************************)
InputPairs(n) == args[n].m \o args[n].kwargs
ToSet(s) == {s[i] : i \in 1..Len(s)}
SameEntries(s, t) == Len(s) = Len(t) /\ ToSet(s) = ToSet(t)

\* the XOR of hash((key, value)) over a set of entries
RECURSIVE XorOverSet(_)
XorOverSet(S) ==
    IF S = {} THEN 0
    ELSE LET e == CHOOSE x \in S : TRUE
         IN  BitXor(TupleHash(e[1], e[2]), XorOverSet(S \ {e}))

\* C1: two FrozenDicts constructed from permutations of the same entries
\* (distinct keys) compare equal and hash alike, and the hash is the XOR of
\* hash((key, value)) over the entries, whatever the insertion order.
C1_PermutationInvariance ==
    (DistinctKeys(InputPairs("A")) /\ SameEntries(InputPairs("A"), InputPairs("B"))) =>
        /\ ret.op = "eq" => ret.val = TRUE
        /\ ret.op = "hash" => ret.val = XorOverSet(ToSet(InputPairs(ret.on)))
        /\ (fd["A"]._hash # None /\ fd["B"]._hash # None) => fd["A"]._hash = fd["B"]._hash

C1_Witness ==
    /\ DistinctKeys(InputPairs("A"))
    /\ SameEntries(InputPairs("A"), InputPairs("B"))
    /\ InputPairs("A") # InputPairs("B")
    /\ fd["A"]._hash # None /\ fd["B"]._hash # None
    /\ fd["A"]._hash # Some(0)
    /\ ret.op = "eq"

\* C2: A | B is a new FrozenDict with exactly the keys of A and of B, B's value
\* at every key of B, A's value at every key of A alone; A and B keep their
\* contents.
C2_UnionRightBias ==
    /\ \A n \in Names : fd[n]._dict = DictUpdate(DictFromPairs(args[n].m), args[n].kwargs)
    /\ (ret.op = "or" /\ ~ret.plain) =>
          /\ ret.res.raised = None
          /\ LET u == ret.res.val[1]._dict
                 a == fd["A"]._dict
                 b == fd["B"]._dict
             IN  /\ ret.res.val[1].type = "FrozenDict"
                 /\ ret.res.val[1]._hash = None
                 /\ DistinctKeys(u)
                 /\ DictKeys(u) = DictKeys(a) \cup DictKeys(b)
                 /\ \A k \in DictKeys(b) : Lookup(u, k) = Lookup(b, k)
                 /\ \A k \in DictKeys(a) \ DictKeys(b) : Lookup(u, k) = Lookup(a, k)

C2_Witness ==
    /\ ret.op = "or" /\ ~ret.plain
    /\ \E k \in DictKeys(fd["A"]._dict) \cap DictKeys(fd["B"]._dict) :
           Lookup(fd["A"]._dict, k) # Lookup(fd["B"]._dict, k)
    /\ DictKeys(fd["A"]._dict) \ DictKeys(fd["B"]._dict) # {}
    /\ fd["A"]._hash # None

\* C10: on one instance the hash cache starts unset, the loop over the entries
\* runs at most once (also when it yields 0), every hash call returns the
\* cached value, the entries never change, and the cached value is the XOR of
\* the per-entry hashes of the content.
C10_HashComputedOnce ==
    \A n \in Names :
        /\ ret.op = "init" => fd[n]._hash = None
        /\ nComputed[n] <= 1
        /\ nComputed[n] = 0 <=> fd[n]._hash = None
        /\ fd[n]._dict = DictUpdate(DictFromPairs(args[n].m), args[n].kwargs)
        /\ fd[n]._hash # None => fd[n]._hash[1] = XorOverSet(ToSet(fd[n]._dict))
        /\ (ret.op = "hash" /\ ret.on = n) => Some(ret.val) = fd[n]._hash

C10_Witness ==
    /\ ret.op = "hash" /\ ret.on = "A"
    /\ fd["A"]._hash = Some(0)
    /\ nComputed["A"] = 1
    /\ Len(fd["A"]._dict) = 2

(***************************************************************************)
(* FrozenDictField                                                         *)
(***************************************************************************)
\* FrozenDict(m) of a FrozenDict m: dict(m) reads m's keys and items
FrozenDict_of(m) == FrozenDict_init(FrozenDict_items(m), <<>>)

\* FrozenDictField(default): default is None for MISSING, else Some(pairs)
FrozenDictField_init(default) ==
    [default |-> default,
     _default |-> IF default # None THEN Some(FrozenDict_init(default[1], <<>>)) ELSE None]

\* __get__(obj, obj_cls): obj is None for an access on the class, else
\* Some(the object's attribute, itself unset or set)
FrozenDictField_get(self, obj) ==
    IF obj # None
    THEN IF obj[1] = None
         THEN [raised |-> Some("AttributeError: object has no attribute"), val |-> None]
         ELSE [raised |-> None, val |-> obj[1]]
    ELSE IF self._default = None
         THEN [raised |-> Some("AttributeError: no default value"), val |-> None]
         ELSE [raised |-> None, val |-> self._default]

\* a __set__ that stores the assigned mapping and drops the default
FrozenDictField_set_nodefault(self, value) ==
    Some(FrozenDict_init(value, <<>>))

\* __set__(obj, value): the attribute it stores
FrozenDictField_set(self, value) ==
    LET dv == IF self._default # None
              THEN FrozenDict_of(self._default[1])
              ELSE FrozenDict_init(<<>>, <<>>)
    IN  FrozenDict_or(dv, FrozenDict_init(value, <<>>)).val

Mappings == {m \in SeqsUpTo(PairSet, MaxLen) : DistinctKeys(m)}

\* the class is defined; no object of it exists yet
InitField ==
    /\ \E d \in {None} \cup {Some(m) : m \in SeqsUpTo(PairSet, MaxLen)} :
           field = FrozenDictField_init(d)
    /\ attr = None
    /\ assigned = [first |-> None, last |-> None]
    /\ fret = [op |-> "init"]

\* the field read on the class, as the dataclass does to find the default
FieldClassGet ==
    /\ fret' = [op |-> "class_get", res |-> FrozenDictField_get(field, None)]
    /\ UNCHANGED <<field, attr, assigned>>

\* obj.field = value: the first by the dataclass's __init__, later ones by
\* whoever holds the object
FieldSet(value) ==
    /\ attr' = FrozenDictField_set(field, value)
    /\ assigned' = [first |-> IF assigned.first = None THEN attr' ELSE assigned.first,
                    last |-> Some(value)]
    /\ fret' = [op |-> "set"]
    /\ UNCHANGED field

\* obj.field read on a constructed object
FieldGet ==
    /\ attr # None
    /\ fret' = [op |-> "get", res |-> FrozenDictField_get(field, Some(attr))]
    /\ UNCHANGED <<field, attr, assigned>>

InitF == IdleFrozenDict /\ InitField /\ IdleTruncNorm /\ IdleComposite

NextF ==
    \/ FieldClassGet /\ UNCHANGED <<fdVars, tnVars, cmVars>>
    \/ \E v \in Mappings : FieldSet(v) /\ UNCHANGED <<fdVars, tnVars, cmVars>>
    \/ FieldGet /\ UNCHANGED <<fdVars, tnVars, cmVars>>

SpecField == InitF /\ [][NextF]_vars

(***************************************************************************)
(* Properties of FrozenDictField                                           *)
(***************************************************************************)
\* the default the descriptor was given, as a dict ({} when MISSING)
DefaultDict == IF field.default = None THEN <<>> ELSE DictFromPairs(field.default[1])

\* C6: read before any assignment, a field with default D gives D as a
\* FrozenDict, and one with no default raises AttributeError ("no default
\* value"); read after the assignment of V it gives the FrozenDict of D and V
\* together, V's value at every key of V.
C6_FieldDefaultAndOverride ==
    /\ (fret.op = "class_get" /\ field.default # None) =>
          /\ fret.res.raised = None
          /\ fret.res.val[1].type = "FrozenDict"
          /\ fret.res.val[1]._dict = DefaultDict
    /\ (fret.op = "class_get" /\ field.default = None) =>
          /\ fret.res.raised = Some("AttributeError: no default value")
          /\ fret.res.val = None
    /\ fret.op = "get" =>
          /\ fret.res.raised = None
          /\ LET r == fret.res.val[1]._dict
                 v == assigned.last[1]
             IN  /\ fret.res.val[1].type = "FrozenDict"
                 /\ DistinctKeys(r)
                 /\ DictKeys(r) = DictKeys(DefaultDict) \cup DictKeys(v)
                 /\ \A k \in DictKeys(v) : Lookup(r, k) = Lookup(v, k)
                 /\ \A k \in DictKeys(DefaultDict) \ DictKeys(v) :
                        Lookup(r, k) = Lookup(DefaultDict, k)

\* default {"a": 1}, assigned {"b": 2}, read back {"a": 1, "b": 2}
C6_Witness ==
    /\ field.default = Some(<< <<"a", 1>> >>)
    /\ assigned.last = Some(<< <<"b", 2>> >>)
    /\ fret.op = "get"
    /\ fret.res.val[1]._dict = << <<"a", 1>>, <<"b", 2>> >>

\* C7: the value read from the field of an object is always the value the
\* first assignment stored, whatever was assigned later.
C7_FrozenOnce ==
    fret.op = "get" => fret.res.val = assigned.first

(***************************************************************************)
(* CompositeModel                                                          *)
(*                                                                         *)
(* A log-space number ln(q), q a natural, is the record [ln |-> q]         *)
(* ([ln |-> 0] is -inf); a probability is the natural q itself.  A         *)
(* log-prior is an integer.                                                *)
(***************************************************************************)
\* xp.exp and xp.log, element by element
Exp(l) == l.ln
Log(q) == [ln |-> q]
\* a + b of two log-space numbers: ln(p) + ln(q) = ln(p * q)
LogAdd(a, b) == [ln |-> a.ln * b.ln]

RECURSIVE SumSeq(_)
SumSeq(s) == IF s = <<>> THEN 0 ELSE Head(s) + SumSeq(Tail(s))

RECURSIVE LogSumSeq(_)
LogSumSeq(s) == IF s = <<>> THEN Log(1) ELSE LogAdd(Head(s), LogSumSeq(Tail(s)))

RECURSIVE ProdSeq(_)
ProdSeq(s) == IF s = <<>> THEN 1 ELSE Head(s) * ProdSeq(Tail(s))

RECURSIVE Concat(_)
Concat(ss) == IF ss = <<>> THEN <<>> ELSE Head(ss) \o Concat(Tail(ss))

\* the sub-models: a density weight w, a log-prior level lp, declared parameters
SubModels ==
    { [w |-> 1, lp |-> 0, param_names |-> << <<"mu", 1>> >>],
      [w |-> 2, lp |-> -1, param_names |-> << <<"sigma", 1>> >>],
      [w |-> 3, lp |-> -2, param_names |-> << <<"mu", 2>>, <<"sigma", 2>> >>] }
ModelNames == {"stream", "background", "extra"}
ParsSet == {1, 2}
DataVals == {0, 1}

\* a sub-model's ln_likelihood(pars, data): one log-space number per row
Model_ln_likelihood(model, pars, data) ==
    [r \in 1..Len(data) |-> Log(model.w * data[r] + pars - 1)]

\* a sub-model's ln_prior(pars)
Model_ln_prior(model, pars) == model.lp - pars

\* CompositeModel(models, **more_models): each model also registered as a module
CompositeModel_init(models, more_models) ==
    LET ms == DictUpdate(IF models # None THEN models[1] ELSE <<>>, more_models)
    IN  [_models |-> ms, _modules |-> [i \in 1..Len(ms) |-> ms[i][1]]]

\* self._models.values()
CompositeModel_values(self) == [i \in 1..Len(self._models) |-> self._models[i][2]]

\* param_names: {k: v for d in values for k, v in d.param_names.items()}
CompositeModel_param_names(self) ==
    LET vs == CompositeModel_values(self)
    IN  DictFromPairs(Concat([i \in 1..Len(vs) |-> vs[i].param_names]))

\* the calls of fn the comprehension over self._models.values() makes
SubCalls(self, fn, a) ==
    [i \in 1..Len(self._models) |->
        [model |-> self._models[i][1], fn |-> fn, args |-> a]]

\* a combination that adds the log-likelihoods instead of the probabilities
CompositeModel_ln_likelihood_sumlogs(self, pars, data) ==
    LET vs == CompositeModel_values(self)
    IN  IF vs = <<>>
        THEN [raised |-> Some("RuntimeError: stack of an empty list"), val |-> <<>>,
              calls |-> <<>>]
        ELSE [raised |-> None,
              val |-> [r \in 1..Len(data) |->
                          LogSumSeq([i \in 1..Len(vs) |->
                                        Model_ln_likelihood(vs[i], pars, data)[r]])],
              calls |-> SubCalls(self, "ln_likelihood", <<pars, data>>)]

\* ln_likelihood(pars, data): stack of exp(L_i), summed over the models, log
CompositeModel_ln_likelihood(self, pars, data) ==
    LET vs == CompositeModel_values(self)
        liks == [i \in 1..Len(vs) |->
                    [r \in 1..Len(data) |-> Exp(Model_ln_likelihood(vs[i], pars, data)[r])]]
        lik == [r \in 1..Len(data) |-> SumSeq([i \in 1..Len(vs) |-> liks[i][r]])]
    IN  IF vs = <<>>
        THEN [raised |-> Some("RuntimeError: stack of an empty list"), val |-> <<>>,
              calls |-> <<>>]
        ELSE [raised |-> None,
              val |-> [r \in 1..Len(data) |-> Log(lik[r])],
              calls |-> SubCalls(self, "ln_likelihood", <<pars, data>>)]

\* a combination that multiplies the log-priors
CompositeModel_ln_prior_product(self, pars) ==
    LET vs == CompositeModel_values(self)
    IN  IF vs = <<>>
        THEN [raised |-> Some("RuntimeError: stack of an empty list"), val |-> 0,
              calls |-> <<>>]
        ELSE [raised |-> None,
              val |-> ProdSeq([i \in 1..Len(vs) |-> Model_ln_prior(vs[i], pars)]),
              calls |-> SubCalls(self, "ln_prior", <<pars>>)]

\* ln_prior(pars): stack of the sub-models' ln_prior(pars), summed
CompositeModel_ln_prior(self, pars) ==
    LET vs == CompositeModel_values(self)
    IN  IF vs = <<>>
        THEN [raised |-> Some("RuntimeError: stack of an empty list"), val |-> 0,
              calls |-> <<>>]
        ELSE [raised |-> None,
              val |-> SumSeq([i \in 1..Len(vs) |-> Model_ln_prior(vs[i], pars)]),
              calls |-> SubCalls(self, "ln_prior", <<pars>>)]

InitComposite ==
    /\ \E ms \in {None} \cup
                  {Some(m) : m \in {x \in SeqsUpTo(ModelNames \X SubModels, MaxModels) :
                                       DistinctKeys(x)}},
          more \in SeqsUpTo(ModelNames \X SubModels, 1) :
           cm = CompositeModel_init(ms, more)
    /\ cin \in [pars : ParsSet, data : SeqsUpTo(DataVals, MaxRows)]
    /\ trace = <<>>
    /\ cret = [op |-> "init"]

LnLikelihood ==
    LET r == CompositeModel_ln_likelihood(cm, cin.pars, cin.data) IN
    /\ cret' = [op |-> "ln_likelihood", raised |-> r.raised, val |-> r.val]
    /\ trace' = r.calls
    /\ UNCHANGED <<cm, cin>>

LnPrior ==
    LET r == CompositeModel_ln_prior(cm, cin.pars) IN
    /\ cret' = [op |-> "ln_prior", raised |-> r.raised, val |-> r.val]
    /\ trace' = r.calls
    /\ UNCHANGED <<cm, cin>>

ParamNames ==
    /\ cret' = [op |-> "param_names", raised |-> None, val |-> CompositeModel_param_names(cm)]
    /\ trace' = <<>>
    /\ UNCHANGED <<cm, cin>>

InitC == IdleFrozenDict /\ IdleField /\ IdleTruncNorm /\ InitComposite

NextC ==
    \/ LnLikelihood /\ UNCHANGED <<fdVars, fieldVars, tnVars>>
    \/ LnPrior /\ UNCHANGED <<fdVars, fieldVars, tnVars>>
    \/ ParamNames /\ UNCHANGED <<fdVars, fieldVars, tnVars>>

SpecComposite == InitC /\ [][NextC]_vars

(***************************************************************************)
(* Properties of CompositeModel                                            *)
(***************************************************************************)
\* the sum of an integer-valued function over its domain
RECURSIVE SumFn(_)
SumFn(f) ==
    IF DOMAIN f = {} THEN 0
    ELSE LET x == CHOOSE y \in DOMAIN f : TRUE
         IN  f[x] + SumFn([y \in DOMAIN f \ {x} |-> f[y]])

Held == DictKeys(cm._models)
Sub(n) == Lookup(cm._models, n)

\* one call of fn per sub-model, in insertion order, each on the arguments a
CalledOnceInOrder(fn, a) ==
    /\ Len(trace) = Len(cm._models)
    /\ \A i \in 1..Len(trace) :
           trace[i] = [model |-> cm._models[i][1], fn |-> fn, args |-> a]

\* C4: ln_likelihood evaluates every sub-model's L_i on the same (pars, data)
\* and returns, row by row, log(sum_i exp(L_i)): for two sub-models
\* log(exp(L1) + exp(L2)).  (A composite that holds no sub-model has nothing to
\* stack, and raises.)
C4_MixtureCombination ==
    cret.op = "ln_likelihood" =>
        IF cm._models = <<>> THEN cret.raised # None
        ELSE /\ cret.raised = None
             /\ CalledOnceInOrder("ln_likelihood", <<cin.pars, cin.data>>)
             /\ Len(cret.val) = Len(cin.data)
             /\ \A r \in 1..Len(cin.data) :
                   /\ cret.val[r] =
                         Log(SumFn([n \in Held |->
                                Exp(Model_ln_likelihood(Sub(n), cin.pars, cin.data)[r])]))
                   /\ Len(cm._models) = 2 =>
                         cret.val[r] =
                           Log(Exp(Model_ln_likelihood(cm._models[1][2], cin.pars, cin.data)[r])
                               + Exp(Model_ln_likelihood(cm._models[2][2], cin.pars, cin.data)[r]))

\* two sub-models, a row where log(exp(L1) + exp(L2)) is not L1 + L2
C4_Witness ==
    /\ cret.op = "ln_likelihood"
    /\ Len(cm._models) = 2
    /\ \E r \in 1..Len(cin.data) :
           cret.val[r] # LogAdd(Model_ln_likelihood(cm._models[1][2], cin.pars, cin.data)[r],
                                Model_ln_likelihood(cm._models[2][2], cin.pars, cin.data)[r])

\* C9: ln_prior(pars) is the sum of the sub-models' ln_prior(pars), each
\* evaluated once on the same pars in insertion order (p1 + p2 for two), and
\* an evaluation of the likelihood calls no sub-model's prior.
C9_PriorAdditivity ==
    /\ cret.op = "ln_prior" =>
          IF cm._models = <<>> THEN cret.raised # None
          ELSE /\ cret.raised = None
               /\ CalledOnceInOrder("ln_prior", <<cin.pars>>)
               /\ cret.val = SumFn([n \in Held |-> Model_ln_prior(Sub(n), cin.pars)])
               /\ Len(cm._models) = 2 =>
                     cret.val = Model_ln_prior(cm._models[1][2], cin.pars)
                                + Model_ln_prior(cm._models[2][2], cin.pars)
    /\ cret.op = "ln_likelihood" => \A i \in 1..Len(trace) : trace[i].fn # "ln_prior"

C9_Witness ==
    /\ cret.op = "ln_prior"
    /\ Len(cm._models) = 2
    /\ cm._models[1][2] # cm._models[2][2]
    /\ cret.val = -5

\* C5: param_names of a composite is the disjoint union of its children's: no
\* name is declared by two children, and every child's entry is in it with the
\* child's own value (none replaced by a later child's).
C5_DisjointParamNames ==
    (cret.op = "param_names" /\ cret.raised = None) =>
        /\ \A i, j \in 1..Len(cm._models) :
               i # j => DictKeys(cm._models[i][2].param_names)
                          \cap DictKeys(cm._models[j][2].param_names) = {}
        /\ \A n \in Held : \A k \in DictKeys(Sub(n).param_names) :
               /\ HasKey(cret.val, k)
               /\ Lookup(cret.val, k) = Lookup(Sub(n).param_names, k)

(***************************************************************************)
(* TruncatedNormal                                                         *)
(*                                                                         *)
(* A table (Data) is [names, array]: the column names and the rows, each   *)
(* row aligned with the names.  An (N, F) array is a sequence of N rows of *)
(* F entries.  A log-density is an integer; the scale parameter ln-sigma   *)
(* is carried as the variance v it stands for (ln-sigma = ln(v) / 2), a    *)
(* measurement error sigma_o as itself.                                    *)
(***************************************************************************)
CoordNames == <<"x", "y">>
CoordErrNames == <<"x_err", "y_err">>
\* the truncation interval (a, b) configured for a coordinate
CoordBound(k) == IF k = "x" THEN <<0, 2>> ELSE <<-1, 1>>
IndexOf(names, k) == CHOOSE j \in 1..Len(names) : names[j] = k

\* data[names]: the named columns, in the order of names
Data_getitem(data, names) ==
    [names |-> names,
     array |-> [r \in 1..Len(data.array) |->
                  [j \in 1..Len(names) |-> data.array[r][IndexOf(data.names, names[j])]]]]

\* self._stack_param(mpars, name, cns): the (N, F) array of mpars[c, name], c in cns
Stack_param(mpars, name, cns) ==
    LET n == Len(mpars[cns[1]][name])
    IN  [r \in 1..n |-> [j \in 1..Len(cns) |-> mpars[cns[j]][name][r]]]

\* arr[idx] with a boolean (N, F) idx: the selected entries, row by row
RECURSIVE MaskSelectRow(_, _)
MaskSelectRow(row, mask) ==
    IF row = <<>> THEN <<>>
    ELSE (IF Head(mask) THEN <<Head(row)>> ELSE <<>>) \o MaskSelectRow(Tail(row), Tail(mask))

MaskSelect(arr, idx) == Concat([r \in 1..Len(arr) |-> MaskSelectRow(arr[r], idx[r])])

\* how many entries of the mask come before (r, j), row by row
RECURSIVE CountTrue(_)
CountTrue(mask) ==
    IF mask = <<>> THEN 0 ELSE (IF Head(mask) THEN 1 ELSE 0) + CountTrue(Tail(mask))

Before(idx, r, j) ==
    SumSeq([q \in 1..(r - 1) |-> CountTrue(idx[q])]) + CountTrue(SubSeq(idx[r], 1, j - 1))

\* array_at(arr, idx).set(value): value scattered to the selected entries
ArrayAtSet(arr, idx, value) ==
    [r \in 1..Len(arr) |->
        [j \in 1..Len(arr[r]) |->
            IF idx[r][j] THEN value[Before(idx, r, j) + 1] ELSE arr[r][j]]]

\* xp.full_like(x, c)
FullLike(x, c) == [r \in 1..Len(x) |-> [j \in 1..Len(x[r]) |-> c]]

\* xp.zeros((n, f), dtype=bool)
Zeros(n, f) == [r \in 1..n |-> [j \in 1..f |-> FALSE]]

\* xp.ones((n, f), dtype=bool)
Ones(n, f) == [r \in 1..n |-> [j \in 1..f |-> TRUE]]

\* the log-density of the truncated normal at x, by the formula
\* log phi((x - loc) / sigma) - log sigma - log(Phi(b') - Phi(a')), in whole units
LogPdf(x, loc, ln_sigma, a, b) == 0 - ((x - loc) * (x - loc)) - ln_sigma - (b - a)

\* logaddexp(2 * ln_s, 2 * log(sigma_o)) / 2: the variances add
CombineSigma(ln_s, sigma_o) ==
    [k \in 1..Len(ln_s) |-> ln_s[k] + sigma_o[k] * sigma_o[k]]

\* ln_likelihood(mpars, data, where=where)
TruncatedNormal_ln_likelihood(self, mpars, data, where) ==
    IF where = None /\ self.require_where
    THEN [raised |-> Some("WhereRequiredError"), val |-> <<>>]
    ELSE
    LET ndim == Len(self.coord_names)
        idx == IF where # None
               THEN Data_getitem(where[1], FrozenDict_iter(self.coord_bounds)).array
               ELSE Ones(Len(data.array), ndim)
        cns == self.coord_names
        cens == self.coord_err_names
        x == Data_getitem(data, cns).array
        ab == [j \in 1..Len(cns) |-> FrozenDict_getitem(self.coord_bounds, cns[j]).val]
        a == [j \in 1..Len(cns) |-> ab[j][1]]
        b == [j \in 1..Len(cns) |-> ab[j][2]]
        mu == MaskSelect(Stack_param(mpars, "mu", cns), idx)
        ln_s0 == MaskSelect(Stack_param(mpars, "ln-sigma", cns), idx)
        ln_s == IF cens # None
                THEN CombineSigma(ln_s0, MaskSelect(Data_getitem(data, cens[1]).array, idx))
                ELSE ln_s0
        z0 == FullLike(x, 0)
        as == MaskSelect([r \in 1..Len(x) |-> [j \in 1..Len(cns) |-> z0[r][j] + a[j]]], idx)
        bs == MaskSelect([r \in 1..Len(x) |-> [j \in 1..Len(cns) |-> z0[r][j] + b[j]]], idx)
        xs == MaskSelect(x, idx)
        value == [k \in 1..Len(xs) |-> LogPdf(xs[k], mu[k], ln_s[k], as[k], bs[k])]
        lnliks == ArrayAtSet(FullLike(x, 0), idx, value)
    IN  [raised |-> None, val |-> [r \in 1..Len(lnliks) |-> SumSeq(lnliks[r])]]

Rows == 0..MaxRows
\* the mean and the intrinsic variance the parameters carry for coordinate k, row r
CoordMu(k, r) == (r + IndexOf(CoordNames, k)) % 2
CoordVar(k) == IF k = "x" THEN 1 ELSE 2

\* a model over the coordinates x and y, its coord_bounds keyed in either
\* order, with or without error columns, and the arguments of one call
InitTruncNorm ==
    /\ \E order \in {<<"x", "y">>, <<"y", "x">>},
          cens \in {None, Some(CoordErrNames)},
          rw \in BOOLEAN :
           tn = [coord_names |-> CoordNames,
                 coord_err_names |-> cens,
                 coord_bounds |-> FrozenDict_init(
                                     [j \in 1..2 |-> <<order[j], CoordBound(order[j])>>], <<>>),
                 require_where |-> rw]
    /\ \E n \in Rows :
         \E xv \in [1..n -> [1..2 -> {0, 1}]],
            w \in {None} \cup {Some(t) : t \in [1..n -> [1..2 -> BOOLEAN]]},
            so \in IF tn.coord_err_names = None THEN {<<>>} ELSE {<<0, 0>>, <<1, 1>>} :
           call = [mpars |-> [c \in {"x", "y"} |->
                                [p \in {"mu", "ln-sigma"} |->
                                    [r \in 1..n |-> IF p = "mu" THEN CoordMu(c, r)
                                                    ELSE CoordVar(c)]]],
                   data |-> [names |-> CoordNames \o (IF so = <<>> THEN <<>> ELSE CoordErrNames),
                             array |-> [r \in 1..n |-> xv[r] \o so]],
                   where |-> IF w = None THEN None
                             ELSE Some([names |-> CoordNames, array |-> w[1]])]
    /\ tnret = [op |-> "init"]

Evaluate ==
    /\ tnret.op = "init"
    /\ tnret' = [op |-> "ln_likelihood",
                 res |-> TruncatedNormal_ln_likelihood(tn, call.mpars, call.data, call.where)]
    /\ UNCHANGED <<tn, call>>

InitT == IdleFrozenDict /\ IdleField /\ InitTruncNorm /\ IdleComposite

NextT == Evaluate /\ UNCHANGED <<fdVars, fieldVars, cmVars>>

SpecTruncNorm == InitT /\ [][NextT]_vars

(***************************************************************************)
(* Properties of TruncatedNormal                                           *)
(***************************************************************************)
Cell(t, r, k) == t.array[r][IndexOf(t.names, k)]

\* the log-density of coordinate k in row r of the call, read by name
Density(r, k) ==
    LET v == call.mpars[k]["ln-sigma"][r]
        so == IF tn.coord_err_names = None THEN 0
              ELSE Cell(call.data, r, CoordErrNames[IndexOf(CoordNames, k)])
    IN  LogPdf(Cell(call.data, r, k), call.mpars[k]["mu"][r], v + so * so,
               CoordBound(k)[1], CoordBound(k)[2])

Observed(r) == {k \in ToSet(CoordNames) : Cell(call.where[1], r, k)}

\* C3: an entry the where mask marks missing adds exactly 0 to its row: the
\* row's log-likelihood is the sum of the log-densities of the coordinates the
\* mask marks observed in that row, and 0 when the mask is false everywhere.
C3_MaskingNeutrality ==
    (tnret.op = "ln_likelihood" /\ call.where # None) =>
        /\ tnret.res.raised = None
        /\ Len(tnret.res.val) = Len(call.data.array)
        /\ \A r \in 1..Len(call.data.array) :
               /\ tnret.res.val[r] = SumFn([k \in Observed(r) |-> Density(r, k)])
               /\ Observed(r) = {} => tnret.res.val[r] = 0

\* the claim of C3 for a model whose coord_bounds is keyed in coord_names order
C3_HoldsInNameOrder ==
    FrozenDict_iter(tn.coord_bounds) = tn.coord_names => C3_MaskingNeutrality

\* a row the mask marks missing in every coordinate has log-likelihood 0
C3_AllMissingIsZero ==
    (tnret.op = "ln_likelihood" /\ call.where # None) =>
        \A r \in 1..Len(call.data.array) : Observed(r) = {} => tnret.res.val[r] = 0

\* C8: called without where, a model with require_where raises
\* WhereRequiredError and returns nothing; any other returns what it returns
\* for a mask that is true everywhere, every entry counted as observed.
C8_WhereOmitted ==
    (tnret.op = "ln_likelihood" /\ call.where = None) =>
        IF tn.require_where
        THEN tnret.res = [raised |-> Some("WhereRequiredError"), val |-> <<>>]
        ELSE /\ tnret.res.raised = None
             /\ tnret.res =
                   TruncatedNormal_ln_likelihood(tn, call.mpars, call.data,
                       Some([names |-> CoordNames,
                             array |-> [r \in 1..Len(call.data.array) |-> <<TRUE, TRUE>>]]))
             /\ \A r \in 1..Len(call.data.array) :
                   tnret.res.val[r] = SumFn([k \in ToSet(CoordNames) |-> Density(r, k)])

C8_Witness ==
    /\ tnret.op = "ln_likelihood"
    /\ call.where = None
    /\ ~tn.require_where
    /\ Len(call.data.array) = 2
    /\ tnret.res.val[1] # tnret.res.val[2]

====
